---- MODULE Spec2Model ----
(***************************************************************************)
(* etcd-starter: the pre-launch version resolver of starter/starter.go.    *)
(*                                                                         *)
(* One run of StartDesiredVersion is modelled as a sequential program:     *)
(* parseConfig, checkInternalVersion (with the helpers it calls), the      *)
(* version switch and syscall.Exec.  The process state (os.Args, the       *)
(* environment, the local variables) is kept in variables.  What the run   *)
(* reads from outside (the flag set, the data directory, the discovery     *)
(* service, the peers) is drawn where the code first reads it and kept.    *)
(***************************************************************************)
EXTENDS Integers, Sequences, FiniteSets, TLC

VARIABLES
    pc,        \* position of the run in StartDesiredVersion and its callees
    fs,        \* the parsed flag set: flag name -> value, Unread until drawn
    env,       \* names of the variables of the process environment
    osArgs,    \* os.Args
    args,      \* the args parameter / local of StartDesiredVersion
    dir,       \* contents of the data directory, once it has been looked at
    consulted, \* collaborators called so far (classifier, decoders, network)
    caller,    \* which branch called checkInternalVersionByClientURLs
    peers,     \* peer URLs being scanned by getClientURLsByPeerURLs
    urls,      \* candidate client URLs of the current scan
    idx,       \* index of the next candidate of the current scan
    queried,   \* /version requests issued so far: <<candidate index, answer>>
    probe,     \* result of checkInternalVersionByClientURLs
    ver,       \* result of checkInternalVersion
    plan,      \* executable path and argument vector built by the switch
    diag,      \* diagnostics printed that the properties refer to
    outcome,   \* how the run has ended, "running" before that
    world,     \* what the outside has answered, kept when it is held fixed
    earlier    \* epochs returned by earlier calls of checkInternalVersion

vars == <<pc, fs, env, osArgs, args, dir, consulted, caller, peers, urls, idx,
          queried, probe, ver, plan, diag, outcome, world, earlier>>

-----------------------------------------------------------------------------
(* Bounds of the model. *)

\* longest legacy command log
MaxLog == 2
\* most machines recorded in a standby marker
MaxCluster == 1
\* most child nodes returned by the discovery service
MaxNodes == 1
\* most comma separated entries of the -peers flag
MaxPeers == 1
\* most candidates handed to checkInternalVersionByClientURLs when it is
\* checked on its own (SpecProbe)
MaxURLs == 3

SeqsUpTo(S, n) == UNION {[1..k -> S] : k \in 0..n}

-----------------------------------------------------------------------------
(* Constants of the program. *)

internalV1 == "1"
internalV2 == "2"
internalV2Proxy == "2.proxy"
internalUnknown == "unknown"

v2SpecialFlags == <<"initial-cluster", "listen-peer-urls", "listen-client-urls", "proxy">>

\* Tags returned by wal.DetectVersion.  WALOther stands for any tag the
\* switch of checkInternalVersion does not list.
WALv2_0 == "2.0.0"
WALv2_0_1 == "2.0.1"
WALv2_0Proxy == "2.0 proxy"
WALv0_4 == "0.4.x"
WALNotExist == "No WAL"
WALUnknown == "Unknown WAL"
WALOther == "other"
WalVersions == {WALv2_0, WALv2_0_1, WALv2_0Proxy, WALv0_4, WALNotExist, WALUnknown, WALOther}

None == "none"

-----------------------------------------------------------------------------
(* What the run reads from outside. *)

Unread == "unread"

\* The flags whose values the run keeps.  "peer-tls" stands for the
\* (peer-ca-file, peer-cert-file, peer-key-file) triple read by peerTLSInfo,
\* which is read twice (lines 155, 157); the triple read by clientTLSInfo is
\* read once and lives only in the TLSInfo handed to newDefaultClient.
FlagNames == {"initial-cluster", "listen-peer-urls", "listen-client-urls", "proxy",
              "data-dir", "discovery", "peers", "peer-tls"}

\* Values of the v2-only flags and of data-dir: unset or set.
FlagStrings == {"", "x"}
DataDirs == {"", "d"}

\* A TLSInfo built from the flags; loads tells whether ClientConfig succeeds.
TLSInfos == {[CertFile |-> "", KeyFile |-> "", loads |-> TRUE],
             [CertFile |-> "cert", KeyFile |-> "key", loads |-> TRUE],
             [CertFile |-> "cert", KeyFile |-> "key", loads |-> FALSE]}

\* URLs are kept split into scheme and host; an empty scheme is a string that
\* is no http(s) URL.
URL(s, h) == [scheme |-> s, host |-> h]
ClientURLs == {URL("http", "c1"), URL("http", "c2")}

\* Machines a standby marker records.
Machines == {[Name |-> "m1", PeerURL |-> URL("http", "p1"), ClientURL |-> URL("http", "c1")],
             [Name |-> "m2", PeerURL |-> URL("http", "p2"), ClientURL |-> URL("http", "c2")]}

\* Result of migrate.DecodeStandbyInfo4FromFile: err is "none", "notexist"
\* (os.IsNotExist) or "decode" (any other error).
NoStandby == [err |-> "notexist", Running |-> FALSE, Cluster |-> <<>>]
BadStandby == [err |-> "decode", Running |-> FALSE, Cluster |-> <<>>]
StandbyInfos == {[err |-> "none", Running |-> r, Cluster |-> c] :
                    r \in BOOLEAN, c \in SeqsUpTo(Machines, MaxCluster)}
StandbyFiles == {NoStandby, BadStandby} \cup StandbyInfos

\* The latest legacy snapshot: err is "nosnap" (no snapshot, nil result),
\* "decode" (DecodeLatestSnapshot4FromDir fails), "unmarshal" (the state is
\* no JSON store) or "none"; etcdDir tells whether the store has the _etcd
\* directory and entry is the value of next-internal-version in it.
Snap(e, d, v) == [err |-> e, etcdDir |-> d, entry |-> v]
NoSnap == Snap("nosnap", FALSE, None)
Snapshots == {NoSnap, Snap("decode", FALSE, None), Snap("unmarshal", FALSE, None),
              Snap("none", FALSE, None), Snap("none", TRUE, None),
              Snap("none", TRUE, "1"), Snap("none", TRUE, "2")}

\* Entries of the legacy command log.  name "bad" is an entry NewCommand4
\* cannot decode.
SentinelKey == "/_etcd/next-internal-version"
Cmd(n, k, v) == [name |-> n, Key |-> k, Value |-> v]
Commands == {Cmd("set", SentinelKey, "2"), Cmd("set", SentinelKey, "1"),
             Cmd("set", "/foo", "2"), Cmd("delete", SentinelKey, ""),
             Cmd("bad", "", "")}
NoLog == [err |-> TRUE, ents |-> <<>>]
Logs == {NoLog} \cup {[err |-> FALSE, ents |-> l] : l \in SeqsUpTo(Commands, MaxLog)}

\* A data directory as the classifier and the legacy decoders see it.
\* dataver "err" is a DetectVersion error.  Only a legacy directory holds a
\* legacy store; an absent directory holds nothing.
Dir(v, sb, sn, lg) == [dataver |-> v, standby |-> sb, snap |-> sn, log |-> lg]
SomeStandby == [err |-> "none", Running |-> TRUE, Cluster |-> <<>>]
Directories ==
    {Dir(WALv0_4, sb, sn, lg) : sb \in StandbyFiles, sn \in Snapshots, lg \in Logs}
    \cup {Dir(v, sb, NoSnap, NoLog) : v \in WalVersions \ {WALv0_4, WALNotExist},
                                      sb \in {NoStandby, SomeStandby}}
    \cup {Dir(WALNotExist, NoStandby, NoSnap, NoLog), Dir("err", NoStandby, NoSnap, NoLog)}

\* Children of the discovery token.
Nodes == {[Key |-> "_config", Value |-> URL("", "3")],
          [Key |-> "_state", Value |-> URL("", "started")],
          [Key |-> "n1", Value |-> URL("http", "p1")]}
\* Result of the discovery lookup: err is "none", "parse" (url.Parse),
\* "client" (client.New) or "get" (the request).
DiscoveryAnswers == {[err |-> e, nodes |-> <<>>] : e \in {"parse", "client", "get"}}
                    \cup {[err |-> "none", nodes |-> n] : n \in SeqsUpTo(Nodes, MaxNodes)}

\* The -peers flag: its comma separated entries (a string always splits into
\* at least one entry; the empty string into one empty entry).  pad tells
\* whether the entry is surrounded by white space.
Entry(pad, text) == [pad |-> pad, text |-> text]
PeerEntries == {Entry(FALSE, ""), Entry(TRUE, "p2")}
PeerStrings == UNION {[1..k -> PeerEntries] : k \in 1..MaxPeers} \cup {<<Entry(FALSE, "")>>}

\* Answer of a peer to GET <url>/version: err is "get" (request failed),
\* "read" (body unreadable), "json" (body is no JSON string map) or "none",
\* and internalVersion is the field of the decoded map ("" when missing).
Answer(e, v) == [err |-> e, internalVersion |-> v]
Answers == {Answer("get", ""), Answer("read", ""), Answer("json", ""),
            Answer("none", "1"), Answer("none", "2"), Answer("none", "3")}

-----------------------------------------------------------------------------
(* The process before the run. *)

\* The arguments the starter was invoked with (opaque to the model: the flag
\* values parsed out of them are drawn by parseConfig).
OrigArgs == <<"-name=n0">>
ProgName == "etcd-starter"
BinDir == "bin"

Environments == {{"ETCD_NAME"}, {"ETCD_NAME", "ETCD_DISCOVERY"}}

\* The outside (the files the TLS settings name, the discovery service, the
\* peers) as the run has met it.  When fixed, a request that was answered
\* before is answered the same way again; otherwise every request is
\* answered afresh and nothing is kept.
World(f) == [fixed |-> f, clientTLS |-> {}, discovery |-> {}, etcdURL |-> {}, version |-> {}]
Changing == World(FALSE)
Unchanging == World(TRUE)

\* The answers to a request to u: what u answered before, if heard holds it,
\* any of D otherwise.
Told(heard, u, D) ==
    LET before == {h[2] : h \in {x \in heard : x[1] = u}} IN
    IF before # {} THEN before ELSE D

\* heard, with the answer a of u added when the outside is held fixed.
Keep(heard, u, a) == IF world.fixed THEN heard \cup {<<u, a>>} ELSE heard

\* A flag's value: any of D at the first lookup, the value it had then at a
\* later one (the flag set does not change once it is parsed).
Lookup(name, D, lookedUp) == IF lookedUp THEN {fs[name]} ELSE D

NoProbe == [ver |-> None, err |-> FALSE, names |-> <<>>]
NoPlan == [p |-> None, argv |-> <<>>, env |-> {}]
NoDir == Dir(None, NoStandby, NoSnap, NoLog)

Init ==
    /\ pc = "parseConfig"
    /\ fs = [n \in FlagNames |-> Unread]
    /\ env \in Environments
    /\ osArgs = <<ProgName>> \o OrigArgs
    /\ args = OrigArgs
    /\ dir = NoDir
    /\ consulted = {}
    /\ caller = None
    /\ peers = <<>>
    /\ urls = <<>>
    /\ idx = 0
    /\ queried = <<>>
    /\ probe = NoProbe
    /\ ver = None
    /\ plan = NoPlan
    /\ diag = {}
    /\ outcome = "running"
    /\ world = Changing
    /\ earlier = <<>>

-----------------------------------------------------------------------------
(* Ends of the run. *)

\* log.Fatalf: diagnostic, exit status 1.
Fatal(d) ==
    /\ pc' = "done"
    /\ outcome' = "fatal"
    /\ diag' = diag \cup {d}

\* log.Panicf or a run-time panic: diagnostic, exit status 2.
Panic(d) ==
    /\ pc' = "done"
    /\ outcome' = "panic"
    /\ diag' = diag \cup {d}

\* checkInternalVersion returns v to StartDesiredVersion, having printed ds.
Return(v, ds) ==
    /\ pc' = "switch"
    /\ ver' = v
    /\ diag' = diag \cup ds

-----------------------------------------------------------------------------
(* StartDesiredVersion, lines 64-67, and parseConfig. *)

\* parseConfig fails (malformed flags or environment) or yields the flag
\* set; the values of the v2-only flags are drawn here, those of the other
\* flags where they are first looked up.
ParseConfig ==
    /\ pc = "parseConfig"
    /\ \E ok \in BOOLEAN :
        IF ok
        THEN /\ \E f \in [{v2SpecialFlags[i] : i \in 1..Len(v2SpecialFlags)} -> FlagStrings] :
                   fs' = [n \in FlagNames |-> IF n \in DOMAIN f THEN f[n] ELSE fs[n]]
             /\ pc' = "checkFlags"
             /\ UNCHANGED outcome
        ELSE /\ pc' = "done"
             /\ outcome' = "returned"
             /\ UNCHANGED fs
    /\ UNCHANGED <<world, earlier, env, osArgs, args, dir, consulted, caller, peers, urls, idx,
                   queried, probe, ver, plan, diag>>

-----------------------------------------------------------------------------
(* checkInternalVersion. *)

\* Mutant: the loop stops one flag short (proxy is not looked at).
UsesV2Flags_SkipsLast(f) ==
    \E i \in 1..(Len(v2SpecialFlags) - 1) : f[v2SpecialFlags[i]] # ""

\* lines 98-102: some v2-only flag is set.
UsesV2Flags(f) == \E i \in 1..Len(v2SpecialFlags) : f[v2SpecialFlags[i]] # ""

CheckV2Flags ==
    /\ pc = "checkFlags"
    /\ IF UsesV2Flags(fs)
       THEN Return(internalV2, {})
       ELSE pc' = "dataDir" /\ UNCHANGED <<ver, diag>>
    /\ UNCHANGED <<world, earlier, fs, env, osArgs, args, dir, consulted, caller, peers, urls, idx,
                   queried, probe, plan, outcome>>

\* lines 104-108.
LookupDataDir ==
    /\ pc = "dataDir"
    /\ \E d \in Lookup("data-dir", DataDirs, fs["data-dir"] # Unread) :
        /\ fs' = [fs EXCEPT !["data-dir"] = d]
        /\ IF d = ""
           THEN Return(internalV2, {"data-dir is not set"})
           ELSE pc' = "detect" /\ UNCHANGED <<ver, diag>>
    /\ UNCHANGED <<world, earlier, env, osArgs, args, dir, consulted, caller, peers, urls, idx,
                   queried, probe, plan, outcome>>

\* Mutant: the switch has no case for wal.WALv2_0_1.
SwitchDataver_NoV2_0_1(dataver) ==
    CASE dataver = WALv2_0 -> internalV2
      [] dataver = WALv2_0Proxy -> internalV2Proxy
      [] dataver = WALv0_4 -> "legacy"
      [] dataver = WALNotExist -> "absent"
      [] dataver = WALUnknown -> internalV2
      [] OTHER -> "panic"

\* Mutant: the switch has a default case that returns internalV2.
SwitchDataver_DefaultV2(dataver) ==
    CASE dataver = WALv2_0Proxy -> internalV2Proxy
      [] dataver = WALv0_4 -> "legacy"
      [] dataver = WALNotExist -> "absent"
      [] OTHER -> internalV2

\* lines 115-121 and 164-169: what the switch does with the classification.
\* "legacy" and "absent" are the two cases that go on (lines 122, 148).
SwitchDataver(dataver) ==
    CASE dataver = WALv2_0 -> internalV2
      [] dataver = WALv2_0_1 -> internalV2
      [] dataver = WALv2_0Proxy -> internalV2Proxy
      [] dataver = WALv0_4 -> "legacy"
      [] dataver = WALNotExist -> "absent"
      [] dataver = WALUnknown -> internalV2
      [] OTHER -> "panic"

\* lines 110-121, 164-169: wal.DetectVersion and the switch on its result.
DetectVersion ==
    /\ pc = "detect"
    /\ consulted' = consulted \cup {"classifier"}
    /\ \E d \in (IF dir = NoDir THEN Directories ELSE {dir}) :
        /\ dir' = d
        /\ IF d.dataver = "err"
           THEN Fatal("failed to detect etcd version") /\ UNCHANGED ver
           ELSE LET to == SwitchDataver(d.dataver) IN
                CASE to = "legacy" -> pc' = "standby" /\ UNCHANGED <<ver, diag, outcome>>
                  [] to = "absent" -> pc' = "getPeers" /\ UNCHANGED <<ver, diag, outcome>>
                  [] to = "panic" -> Panic("unhandled etcd version") /\ UNCHANGED ver
                  [] OTHER -> /\ Return(to, IF d.dataver = WALUnknown
                                             THEN {"unrecognized contents in data directory"}
                                             ELSE {})
                              /\ UNCHANGED outcome
    /\ UNCHANGED <<world, earlier, fs, env, osArgs, args, caller, peers, urls, idx, queried, probe, plan>>

\* StandbyInfo4.ClientURLs and StandbyInfo4.InitialCluster: the client URLs
\* of the recorded machines, and their name=peerURL pairs (the list stands
\* for the comma separated string).
ClientURLsOf(sb) == [i \in 1..Len(sb.Cluster) |-> sb.Cluster[i].ClientURL]
InitialCluster(sb) == [i \in 1..Len(sb.Cluster) |-> <<sb.Cluster[i].Name, sb.Cluster[i].PeerURL>>]

\* line 128.
InStandbyMode(sb) == sb.err = "none" /\ sb.Running

\* lines 123-130: the standby marker of a legacy directory.
DecodeStandby ==
    /\ pc = "standby"
    /\ consulted' = consulted \cup {"standby"}
    /\ LET sb == dir.standby IN
        IF sb.err = "decode"
        THEN Return(internalV1, {"failed to decode standbyInfo"})
             /\ UNCHANGED <<caller, urls>>
        ELSE IF InStandbyMode(sb)
        THEN /\ urls' = ClientURLsOf(sb)
             /\ caller' = "standby"
             /\ pc' = "newClient"
             /\ UNCHANGED <<ver, diag>>
        ELSE /\ pc' = "dataDir4"
             /\ UNCHANGED <<ver, diag, caller, urls>>
    /\ UNCHANGED <<world, earlier, fs, env, osArgs, args, dir, peers, idx, queried, probe, plan, outcome>>

\* TLSInfo.Scheme.
Scheme(tls) == IF tls.KeyFile # "" /\ tls.CertFile # "" THEN "https" ELSE "http"

\* lines 316-326: whether newDefaultClient returns a client.
ClientBuilt(tls) == Scheme(tls) # "https" \/ tls.loads

\* lines 236-239, with clientTLSInfo (lines 365-371).
NewDefaultClient ==
    /\ pc = "newClient"
    /\ \E t \in Told(world.clientTLS, "client-tls", TLSInfos) :
        /\ world' = [world EXCEPT !.clientTLS = Keep(@, "client-tls", t)]
        /\ IF ClientBuilt(t)
           THEN /\ pc' = "scan"
                /\ idx' = 1
                /\ UNCHANGED probe
           ELSE /\ pc' = "probeReturn"
                /\ probe' = [ver |-> internalUnknown, err |-> TRUE, names |-> <<>>]
                /\ UNCHANGED idx
    /\ UNCHANGED <<earlier, fs, env, osArgs, args, dir, consulted, caller, peers, urls, queried,
                   ver, plan, diag, outcome>>

\* Mutant: an unrecognized internalVersion ends the scan with an error.
QueryVersion_AbortsOnUnrecognized ==
    /\ pc = "scan"
    /\ idx <= Len(urls)
    /\ consulted' = consulted \cup {"version"}
    /\ \E a \in Told(world.version, urls[idx], Answers) :
        /\ world' = [world EXCEPT !.version = Keep(@, urls[idx], a)]
        /\ queried' = Append(queried, <<idx, a>>)
        /\ IF a.err = "none"
           THEN /\ probe' = IF a.internalVersion \in {"1", "2"}
                            THEN [ver |-> a.internalVersion, err |-> FALSE, names |-> <<>>]
                            ELSE [ver |-> internalUnknown, err |-> TRUE, names |-> urls]
                /\ pc' = "probeReturn"
                /\ UNCHANGED idx
           ELSE /\ idx' = idx + 1
                /\ UNCHANGED <<probe, pc>>
    /\ UNCHANGED <<earlier, fs, env, osArgs, args, dir, caller, peers, urls, ver, plan, diag, outcome>>

\* lines 242-265: the epoch an answer carries, None when it carries none.
RecognizedVersion(a) ==
    IF a.err # "none" THEN None
    ELSE CASE a.internalVersion = "1" -> internalV1
           [] a.internalVersion = "2" -> internalV2
           [] OTHER -> None

\* lines 240-266: one iteration of the scan of checkInternalVersionByClientURLs.
QueryVersion ==
    /\ pc = "scan"
    /\ idx <= Len(urls)
    /\ consulted' = consulted \cup {"version"}
    /\ \E a \in Told(world.version, urls[idx], Answers) :
        /\ world' = [world EXCEPT !.version = Keep(@, urls[idx], a)]
        /\ queried' = Append(queried, <<idx, a>>)
        /\ IF RecognizedVersion(a) # None
           THEN /\ probe' = [ver |-> RecognizedVersion(a), err |-> FALSE, names |-> <<>>]
                /\ pc' = "probeReturn"
                /\ UNCHANGED idx
           ELSE /\ idx' = idx + 1
                /\ UNCHANGED <<probe, pc>>
    /\ UNCHANGED <<earlier, fs, env, osArgs, args, dir, caller, peers, urls, ver, plan, diag, outcome>>

\* Mutant: the error of the exhausted scan does not carry the list.
ScanExhausted_NamesNone ==
    /\ pc = "scan"
    /\ idx > Len(urls)
    /\ probe' = [ver |-> internalUnknown, err |-> TRUE, names |-> <<>>]
    /\ pc' = "probeReturn"
    /\ UNCHANGED <<world, earlier, fs, env, osArgs, args, dir, consulted, caller, peers, urls, idx,
                   queried, ver, plan, diag, outcome>>

\* line 267: every candidate was tried.
ScanExhausted ==
    /\ pc = "scan"
    /\ idx > Len(urls)
    /\ probe' = [ver |-> internalUnknown, err |-> TRUE, names |-> urls]
    /\ pc' = "probeReturn"
    /\ UNCHANGED <<world, earlier, fs, env, osArgs, args, dir, consulted, caller, peers, urls, idx,
                   queried, ver, plan, diag, outcome>>

\* Mutant: the probe's epoch is returned as it is.
StandbyResult_PassesProbe(pr) ==
    IF pr.err THEN [ver |-> internalV1, unset |-> FALSE, cluster |-> FALSE]
    ELSE [ver |-> pr.ver, unset |-> FALSE, cluster |-> FALSE]

\* Mutant: the V2 case is taken once per process: when os.Args already
\* holds -initial-cluster the probe's result is returned as it is.
StandbyResult_OncePerProcess(pr) ==
    IF pr.err THEN [ver |-> internalV1, unset |-> FALSE, cluster |-> FALSE]
    ELSE IF pr.ver = internalV2 /\ \A i \in 1..Len(osArgs) : osArgs[i] # "-initial-cluster"
    THEN [ver |-> internalV2Proxy, unset |-> TRUE, cluster |-> TRUE]
    ELSE [ver |-> pr.ver, unset |-> FALSE, cluster |-> FALSE]

\* Mutant: the V2 case does not unset ETCD_DISCOVERY.
StandbyResult_KeepsDiscovery(pr) ==
    IF pr.err THEN [ver |-> internalV1, unset |-> FALSE, cluster |-> FALSE]
    ELSE IF pr.ver = internalV2
    THEN [ver |-> internalV2Proxy, unset |-> FALSE, cluster |-> TRUE]
    ELSE [ver |-> pr.ver, unset |-> FALSE, cluster |-> FALSE]

\* lines 131-140: what the standby branch makes of the probe's result.
\* unset: ETCD_DISCOVERY is unset; cluster: -initial-cluster is appended to
\* os.Args.
StandbyResult(pr) ==
    IF pr.err THEN [ver |-> internalV1, unset |-> FALSE, cluster |-> FALSE]
    ELSE IF pr.ver = internalV2
    THEN [ver |-> internalV2Proxy, unset |-> TRUE, cluster |-> TRUE]
    ELSE [ver |-> pr.ver, unset |-> FALSE, cluster |-> FALSE]

\* osutil.Unsetenv.
Unsetenv(e, key) == e \ {key}

StandbyProbeReturn ==
    /\ pc = "probeReturn"
    /\ caller = "standby"
    /\ LET r == StandbyResult(probe) IN
        /\ env' = IF r.unset THEN Unsetenv(env, "ETCD_DISCOVERY") ELSE env
        /\ osArgs' = IF r.cluster
                     THEN osArgs \o <<"-initial-cluster", InitialCluster(dir.standby)>>
                     ELSE osArgs
        /\ Return(r.ver, IF probe.err
                         THEN {"failed to check start version through peers"} ELSE {})
    /\ UNCHANGED <<world, earlier, fs, args, dir, consulted, caller, peers, urls, idx, queried, probe,
                   plan, outcome>>

\* Mutant: a failed probe degrades to V1, as in the standby branch.
AbsentResult_DegradesV1(pr) == IF pr.err THEN internalV1 ELSE pr.ver

\* Mutant: the probe's error is not checked.
AbsentResult_NoErrCheck(pr) == pr.ver

\* lines 159-163: what the absent branch makes of the probe's result.
AbsentResult(pr) == IF pr.err THEN internalV2 ELSE pr.ver

AbsentProbeReturn ==
    /\ pc = "probeReturn"
    /\ caller = "absent"
    /\ Return(AbsentResult(probe), IF probe.err
                                   THEN {"failed to check start version through peers"}
                                   ELSE {})
    /\ UNCHANGED <<world, earlier, fs, env, osArgs, args, dir, consulted, caller, peers, urls, idx,
                   queried, probe, plan, outcome>>

-----------------------------------------------------------------------------
(* checkInternalVersionByDataDir4. *)

Verdict(v) == [ver |-> v, err |-> FALSE, panic |-> FALSE]
Failure == [ver |-> internalUnknown, err |-> TRUE, panic |-> FALSE]
NilDeref == [ver |-> internalUnknown, err |-> FALSE, panic |-> TRUE]

\* Mutant: the value of the set command is not compared.
IsMigrationSet_AnyValue(cmd) == cmd.name = "set" /\ cmd.Key = SentinelKey

\* lines 201-207: the command is a set of the sentinel key to "2".
IsMigrationSet(cmd) == cmd.name = "set" /\ cmd.Key = SentinelKey /\ cmd.Value = "2"

\* lines 196-209: the loop over the log entries, from entry i on.
RECURSIVE ScanLog(_, _)
ScanLog(ents, i) ==
    IF i > Len(ents) THEN Verdict(internalV1)
    ELSE IF ents[i].name = "bad" THEN Failure
    ELSE IF IsMigrationSet(ents[i]) THEN Verdict(internalV2)
    ELSE ScanLog(ents, i + 1)

\* Mutant: the loop runs to the end of the log and the last set of the
\* sentinel key decides.
CheckLog4_LastSetWins(log) ==
    IF log.err \/ \E i \in 1..Len(log.ents) : log.ents[i].name = "bad" THEN Failure
    ELSE LET sets == {i \in 1..Len(log.ents) : /\ log.ents[i].name = "set"
                                                /\ log.ents[i].Key = SentinelKey} IN
         IF sets # {} /\ log.ents[CHOOSE i \in sets : \A j \in sets : j <= i].Value = "2"
         THEN Verdict(internalV2)
         ELSE Verdict(internalV1)

\* lines 191-209: the log stage.
CheckLog4(log) == IF log.err THEN Failure ELSE ScanLog(log.ents, 1)

\* Mutant: a snapshot without the sentinel settles V1; the log is not read.
checkInternalVersionByDataDir4_SnapshotOnly(snap, log, nilPanics) ==
    CASE snap.err = "decode" -> Failure
      [] snap.err = "unmarshal" -> Failure
      [] snap.err = "nosnap" -> CheckLog4(log)
      [] OTHER ->
           IF ~snap.etcdDir
           THEN IF nilPanics THEN NilDeref ELSE Verdict(internalV1)
           ELSE IF snap.entry = "2" THEN Verdict(internalV2)
           ELSE Verdict(internalV1)

\* Mutant: a snapshot state that is no store is skipped and the log decides.
checkInternalVersionByDataDir4_SkipsBadState(snap, log, nilPanics) ==
    CASE snap.err = "decode" -> Failure
      [] snap.err = "unmarshal" -> CheckLog4(log)
      [] snap.err = "nosnap" -> CheckLog4(log)
      [] OTHER ->
           IF ~snap.etcdDir
           THEN IF nilPanics THEN NilDeref ELSE CheckLog4(log)
           ELSE IF snap.entry = "2" THEN Verdict(internalV2)
           ELSE CheckLog4(log)

\* lines 173-210.  A decoded store without the _etcd directory makes line
\* 185 read a field of what line 184 found missing: nilPanics tells whether
\* that is a nil pointer dereference (Children holds pointers) or reads the
\* zero value (the declaration is migrate's, not the starter's).
checkInternalVersionByDataDir4(snap, log, nilPanics) ==
    CASE snap.err = "decode" -> Failure
      [] snap.err = "unmarshal" -> Failure
      [] snap.err = "nosnap" -> CheckLog4(log)
      [] OTHER ->
           IF ~snap.etcdDir
           THEN IF nilPanics THEN NilDeref ELSE CheckLog4(log)
           ELSE IF snap.entry = "2" THEN Verdict(internalV2)
           ELSE CheckLog4(log)

\* Whether the run of checkInternalVersionByDataDir4 gets to line 192.
ReadsLog4(snap, nilPanics) ==
    CASE snap.err = "decode" -> FALSE
      [] snap.err = "unmarshal" -> FALSE
      [] snap.err = "nosnap" -> TRUE
      [] OTHER -> IF ~snap.etcdDir THEN ~nilPanics ELSE snap.entry # "2"

\* Mutant: an inspector error degrades to V2, as a probe error does in the
\* absent branch.
DataDir4Result_DegradesV2(r) == IF r.err THEN internalV2 ELSE r.ver

\* lines 143-147: what the legacy branch makes of the inspector's result.
DataDir4Result(r) == IF r.err THEN internalV1 ELSE r.ver

\* lines 142-147, with the call of checkInternalVersionByDataDir4.
InspectDataDir ==
    /\ pc = "dataDir4"
    /\ \E nilPanics \in BOOLEAN :
        LET r == checkInternalVersionByDataDir4(dir.snap, dir.log, nilPanics) IN
        /\ consulted' = consulted \cup {"snapshot"}
                        \cup (IF ReadsLog4(dir.snap, nilPanics) THEN {"log"} ELSE {})
        /\ IF r.panic
           THEN Panic("nil pointer dereference") /\ UNCHANGED ver
           ELSE /\ Return(DataDir4Result(r),
                          IF r.err THEN {"failed to check start version in data dir"} ELSE {})
                /\ UNCHANGED outcome
    /\ UNCHANGED <<world, earlier, fs, env, osArgs, args, dir, caller, peers, urls, idx, queried,
                   probe, plan>>

-----------------------------------------------------------------------------
(* The absent branch: the peers to ask. *)

\* path.Base of a node key.
IsConfigKey(k) == k = "_config" \/ k = "_state"

\* lines 297-305: the values of the nodes that are no bookkeeping keys.
RECURSIVE PeersOfNodes(_)
PeersOfNodes(nodes) ==
    IF nodes = <<>> THEN <<>>
    ELSE IF IsConfigKey(Head(nodes).Key) THEN PeersOfNodes(Tail(nodes))
    ELSE <<Head(nodes).Value>> \o PeersOfNodes(Tail(nodes))

\* lines 270-306: answer is what the discovery service does when asked.
getPeersFromDiscoveryURL(discoverURL, answer) ==
    IF discoverURL = "" THEN [peers |-> <<>>, err |-> FALSE]
    ELSE IF answer.err # "none" THEN [peers |-> <<>>, err |-> TRUE]
    ELSE [peers |-> PeersOfNodes(answer.nodes), err |-> FALSE]

\* Whether getPeersFromDiscoveryURL sends a request (line 292).
AsksDiscovery(discoverURL, answer) ==
    discoverURL # "" /\ answer.err \in {"none", "get"}

\* lines 393-399: strings.Split and strings.TrimSpace of each entry.
trimSplit(str) == [i \in 1..Len(str) |-> str[i].text]

\* lines 308-314.
getPeersFromPeersFlag(str, tls) ==
    LET trimmed == trimSplit(str) IN
    [i \in 1..Len(trimmed) |-> URL(Scheme(tls), trimmed[i])]

DiscoveryURLs == {"", "https://discovery/token"}

\* lines 149-155.
GetPeers ==
    /\ pc = "getPeers"
    /\ \E d \in Lookup("discovery", DiscoveryURLs, fs["discovery"] # Unread),
          answer \in Told(world.discovery, "discovery", DiscoveryAnswers),
          str \in Lookup("peers", PeerStrings, fs["discovery"] # Unread),
          t \in Lookup("peer-tls", TLSInfos, fs["discovery"] # Unread) :
        LET r == getPeersFromDiscoveryURL(d, answer) IN
        /\ world' = [world EXCEPT !.discovery = Keep(@, "discovery", answer)]
        /\ fs' = [fs EXCEPT !["discovery"] = d, !["peers"] = str, !["peer-tls"] = t]
        /\ consulted' = consulted \cup (IF AsksDiscovery(d, answer) THEN {"discovery"} ELSE {})
        /\ diag' = diag \cup (IF r.err THEN {"failed to get peers from discovery"} ELSE {})
        /\ peers' = r.peers \o getPeersFromPeersFlag(str, t)
    /\ pc' = "peerClient"
    /\ UNCHANGED <<earlier, env, osArgs, args, dir, caller, urls, idx, queried, probe, ver,
                   plan, outcome>>

\* lines 213-217, with peerTLSInfo (lines 373-379).
NewPeerClient ==
    /\ pc = "peerClient"
    /\ urls' = <<>>
    /\ IF ClientBuilt(fs["peer-tls"])
       THEN /\ pc' = "etcdURL"
            /\ idx' = 1
            /\ UNCHANGED <<caller, diag>>
       ELSE /\ pc' = "newClient"
            /\ caller' = "absent"
            /\ diag' = diag \cup {"new client error"}
            /\ UNCHANGED idx
    /\ UNCHANGED <<world, earlier, fs, env, osArgs, args, dir, consulted, peers, queried, probe, ver,
                   plan, outcome>>

\* Whether a request to u can be sent at all: it names a host over http(s).
Addressable(u) == u.scheme \in {"http", "https"} /\ u.host # ""

\* What GET <u>/etcdURL may yield: a body, or a failure (the only outcome
\* when no request to u can be sent).
NoReply == [ok |-> FALSE, body |-> URL("", "")]
EtcdURLReplies(u) ==
    {NoReply} \cup (IF Addressable(u) THEN {[ok |-> TRUE, body |-> b] : b \in ClientURLs}
                                      ELSE {})

\* lines 219-231: one iteration of the loop of getClientURLsByPeerURLs.  The
\* peer answers with a body, taken as its client URL, or the request fails.
GetEtcdURL ==
    /\ pc = "etcdURL"
    /\ idx <= Len(peers)
    /\ idx' = idx + 1
    /\ \E reply \in Told(world.etcdURL, peers[idx], EtcdURLReplies(peers[idx])) :
        /\ world' = [world EXCEPT !.etcdURL = Keep(@, peers[idx], reply)]
        /\ consulted' = consulted \cup (IF Addressable(peers[idx]) THEN {"etcdURL"} ELSE {})
        /\ IF reply.ok
           THEN urls' = Append(urls, reply.body) /\ UNCHANGED diag
           ELSE urls' = urls /\ diag' = diag \cup {"failed to get /etcdURL"}
    /\ UNCHANGED <<earlier, pc, fs, env, osArgs, args, dir, caller, peers, queried, probe, ver,
                   plan, outcome>>

\* lines 232 and 157-158: the scan is over, the probe is called.
EtcdURLsDone ==
    /\ pc = "etcdURL"
    /\ idx > Len(peers)
    /\ pc' = "newClient"
    /\ caller' = "absent"
    /\ UNCHANGED <<world, earlier, fs, env, osArgs, args, dir, consulted, peers, urls, idx, queried,
                   probe, ver, plan, diag, outcome>>

-----------------------------------------------------------------------------
(* StartDesiredVersion, lines 69-93. *)

\* path.Join(binDir, sub, "etcd").
Join(binDir, sub) == <<binDir, sub, "etcd">>

\* lines 72-87: the executable of a version, None when the version is not
\* handled.
ExecutableOf(v) ==
    CASE v = internalV1 -> Join(BinDir, "1")
      [] v = internalV2 -> Join(BinDir, "2")
      [] v = internalV2Proxy -> Join(BinDir, "2")
      [] OTHER -> None

\* Mutant: the V2Proxy case does not append the flag.
ArgsFor_NoFlag(v, a) == a

\* line 84: the arguments after the switch.
ArgsFor(v, a) == IF v = internalV2Proxy THEN Append(a, "-proxy=on") ELSE a

\* line 79: os.Stat of the standby_info file fails.
StatFails(d) == d.standby.err = "notexist"

\* lines 79-82: the standby_info diagnostic is printed.
PrintsStandbyInfo(v, d) == v = internalV2Proxy /\ StatFails(d)

\* lines 70-87.
StartSwitch ==
    /\ pc = "switch"
    /\ IF ExecutableOf(ver) = None
       THEN Panic("unhandled start version") /\ UNCHANGED <<plan, args>>
       ELSE /\ plan' = [plan EXCEPT !.p = ExecutableOf(ver)]
            /\ args' = ArgsFor(ver, args)
            /\ diag' = diag \cup (IF PrintsStandbyInfo(ver, dir)
                                  THEN {"detected standby_info file"} ELSE {})
            /\ pc' = "exec"
            /\ UNCHANGED outcome
    /\ UNCHANGED <<world, earlier, fs, env, osArgs, dir, consulted, caller, peers, urls, idx, queried,
                   probe, ver>>

\* lines 89-93: syscall.Exec replaces the process, or fails.
Exec ==
    /\ pc = "exec"
    /\ plan' = [plan EXCEPT !.argv = <<plan.p>> \o args, !.env = env]
    /\ \E ok \in BOOLEAN :
        IF ok
        THEN pc' = "done" /\ outcome' = "exec" /\ UNCHANGED diag
        ELSE Fatal("failed to execute")
    /\ UNCHANGED <<world, earlier, fs, env, osArgs, args, dir, consulted, caller, peers, urls, idx,
                   queried, probe, ver>>

-----------------------------------------------------------------------------

Next ==
    \/ ParseConfig
    \/ CheckV2Flags
    \/ LookupDataDir
    \/ DetectVersion
    \/ DecodeStandby
    \/ NewDefaultClient
    \/ QueryVersion
    \/ ScanExhausted
    \/ StandbyProbeReturn
    \/ AbsentProbeReturn
    \/ InspectDataDir
    \/ GetPeers
    \/ NewPeerClient
    \/ GetEtcdURL
    \/ EtcdURLsDone
    \/ StartSwitch
    \/ Exec

Spec == Init /\ [][Next]_vars

-----------------------------------------------------------------------------
(* checkInternalVersionByClientURLs on its own: the candidate list is drawn  *)
(* and the function is run from its first line to its return.               *)

InitProbe ==
    /\ pc = "newClient"
    /\ fs = [n \in FlagNames |-> Unread]
    /\ env \in Environments
    /\ osArgs = <<ProgName>> \o OrigArgs
    /\ args = OrigArgs
    /\ dir = NoDir
    /\ consulted = {}
    /\ caller = "direct"
    /\ peers = <<>>
    /\ urls \in SeqsUpTo(ClientURLs, MaxURLs)
    /\ idx = 0
    /\ queried = <<>>
    /\ probe = NoProbe
    /\ ver = None
    /\ plan = NoPlan
    /\ diag = {}
    /\ outcome = "running"
    /\ world = Changing
    /\ earlier = <<>>

NextProbe ==
    \/ NewDefaultClient
    \/ QueryVersion
    \/ ScanExhausted

SpecProbe == InitProbe /\ [][NextProbe]_vars

-----------------------------------------------------------------------------
(* checkInternalVersion called twice on one parsed flag set, the directory,  *)
(* the TLS files, the discovery service and the peers held fixed.  The       *)
(* second call starts in the process the first one left: its environment    *)
(* and os.Args are those the first call wrote.                              *)

\* checkInternalVersion(fs) has returned and is called again: its locals are
\* fresh, everything else is as the first call left it.
CallAgain ==
    /\ pc = "switch"
    /\ earlier = <<>>
    /\ earlier' = Append(earlier, ver)
    /\ pc' = "checkFlags"
    /\ ver' = None
    /\ caller' = None
    /\ peers' = <<>>
    /\ urls' = <<>>
    /\ idx' = 0
    /\ queried' = <<>>
    /\ probe' = NoProbe
    /\ UNCHANGED <<world, fs, env, osArgs, args, dir, consulted, plan, diag, outcome>>

InitTwice ==
    /\ pc = "checkFlags"
    /\ \E f \in [{v2SpecialFlags[i] : i \in 1..Len(v2SpecialFlags)} -> FlagStrings] :
          fs = [n \in FlagNames |-> IF n \in DOMAIN f THEN f[n] ELSE Unread]
    /\ env = {"ETCD_NAME", "ETCD_DISCOVERY"}
    /\ osArgs = <<ProgName>> \o OrigArgs
    /\ args = OrigArgs
    /\ dir = NoDir
    /\ consulted = {}
    /\ caller = None
    /\ peers = <<>>
    /\ urls = <<>>
    /\ idx = 0
    /\ queried = <<>>
    /\ probe = NoProbe
    /\ ver = None
    /\ plan = NoPlan
    /\ diag = {}
    /\ outcome = "running"
    /\ world = Unchanging
    /\ earlier = <<>>

NextTwice ==
    \/ CheckV2Flags
    \/ LookupDataDir
    \/ DetectVersion
    \/ DecodeStandby
    \/ NewDefaultClient
    \/ QueryVersion
    \/ ScanExhausted
    \/ StandbyProbeReturn
    \/ AbsentProbeReturn
    \/ InspectDataDir
    \/ GetPeers
    \/ NewPeerClient
    \/ GetEtcdURL
    \/ EtcdURLsDone
    \/ CallAgain

SpecTwice == InitTwice /\ [][NextTwice]_vars

-----------------------------------------------------------------------------
(* Vocabulary of the properties. *)

\* parseConfig has returned a flag set.
Parsed == fs["proxy"] # Unread

V2OnlyKeys == {"initial-cluster", "listen-peer-urls", "listen-client-urls", "proxy"}
SomeV2Key == Parsed /\ \E k \in V2OnlyKeys : fs[k] # ""
NoV2Key == Parsed /\ \A k \in V2OnlyKeys : fs[k] = ""

\* checkInternalVersion is over: it returned, or the run ended in it.
ResolverOver == Parsed /\ pc \in {"switch", "exec", "done"}

\* syscall.Exec was called.
ExecCalled == plan.argv # <<>>

LegacyDir == dir.dataver = WALv0_4
AbsentDir == dir.dataver = WALNotExist
RunningStandby == dir.standby.err = "none" /\ dir.standby.Running
\* The standby marker is missing, or decodes and is not running.
NoRunningStandby ==
    dir.standby.err = "notexist" \/ (dir.standby.err = "none" /\ ~dir.standby.Running)

\* An answer with a recognized internalVersion.
Informative(a) == a.err = "none" /\ a.internalVersion \in {"1", "2"}

\* The internalVersion of the first informative answer among the requests
\* q[i], q[i+1], ...; None when there is none.
RECURSIVE FirstInformative(_, _)
FirstInformative(q, i) ==
    IF i > Len(q) THEN None
    ELSE IF Informative(q[i][2]) THEN q[i][2].internalVersion
    ELSE FirstInformative(q, i + 1)

MigrationSet == Cmd("set", SentinelKey, "2")
SnapshotHoldsSentinel == dir.snap.err = "none" /\ dir.snap.etcdDir /\ dir.snap.entry = "2"
LogHoldsSentinel == ~dir.log.err /\ \E i \in 1..Len(dir.log.ents) : dir.log.ents[i] = MigrationSet
LogDecodesCleanly == ~dir.log.err /\ \A i \in 1..Len(dir.log.ents) : dir.log.ents[i].name # "bad"

-----------------------------------------------------------------------------
(* Properties. *)

\* C1: when some v2-only key is set, checkInternalVersion resolves V2, and
\* neither the data-dir flag, the classifier, the legacy decoders nor any
\* peer has been consulted.
C1_V2KeyForcesV2 ==
    (SomeV2Key /\ pc # "checkFlags") =>
        /\ ver = internalV2
        /\ consulted = {}
        /\ dir = NoDir
        /\ queried = <<>>
        /\ fs["data-dir"] = Unread
        /\ outcome \in {"running", "exec", "fatal"}

\* C1 witness: a run with only the last v2-only key (proxy) set was handed
\* off.
C1_Witness ==
    /\ SomeV2Key /\ fs["initial-cluster"] = "" /\ fs["proxy"] = "x"
    /\ outcome = "exec" /\ ver = internalV2

\* C2: no v2-only key, legacy directory, running standby marker, first
\* informative peer answer "2": the resolved epoch is V2Proxy and
\* ETCD_DISCOVERY is not in the environment handed to the executable.
C2_StandbyPeerV2GivesProxy ==
    (NoV2Key /\ ResolverOver /\ LegacyDir /\ RunningStandby
        /\ FirstInformative(queried, 1) = "2") =>
        /\ ver = internalV2Proxy
        /\ "ETCD_DISCOVERY" \notin env
        /\ (ExecCalled => "ETCD_DISCOVERY" \notin plan.env)

\* C2 witness: such a run was handed off.
C2_Witness ==
    /\ NoV2Key /\ LegacyDir /\ RunningStandby
    /\ FirstInformative(queried, 1) = "2"
    /\ outcome = "exec" /\ ver = internalV2Proxy /\ plan.env = {"ETCD_NAME"}

\* C3: on the standby route to V2Proxy the argument vector handed to the
\* executable holds -initial-cluster followed by the marker's
\* initial-cluster string.
C3_InitialClusterInArgv ==
    (NoV2Key /\ LegacyDir /\ RunningStandby /\ FirstInformative(queried, 1) = "2"
        /\ ExecCalled) =>
        \E i \in 1..(Len(plan.argv) - 1) :
            /\ plan.argv[i] = "-initial-cluster"
            /\ plan.argv[i + 1] = InitialCluster(dir.standby)

\* C4 as stated: a legacy directory whose snapshot or command log holds the
\* sentinel resolves V2, whatever the standby marker and the peers.
C4_SentinelPinsV2 ==
    (NoV2Key /\ ResolverOver /\ LegacyDir
        /\ (SnapshotHoldsSentinel \/ LogHoldsSentinel)) =>
        ver = internalV2

\* The inspector gets to the sentinel: the snapshot holds it, or the snapshot
\* is missing or is a store with the _etcd directory, and the log decodes
\* and holds the set command after decodable commands only.
InspectorReachesSentinel ==
    \/ SnapshotHoldsSentinel
    \/ /\ dir.snap.err = "nosnap" \/ (dir.snap.err = "none" /\ dir.snap.etcdDir)
       /\ ~dir.log.err
       /\ \E i \in 1..Len(dir.log.ents) :
            /\ dir.log.ents[i] = MigrationSet
            /\ \A j \in 1..(i - 1) : dir.log.ents[j].name # "bad"

\* C4 amended: a legacy directory without a running standby marker, whose
\* inspector gets to the sentinel, resolves V2.
C4_ObservedSentinelPinsV2 ==
    (NoV2Key /\ ResolverOver /\ LegacyDir /\ NoRunningStandby
        /\ InspectorReachesSentinel) =>
        ver = internalV2

\* C4 witness: the sentinel was found in the log, behind a snapshot that
\* holds another value and a command that is no set, under a standby marker
\* that is not running.
C4_Witness ==
    /\ NoV2Key /\ LegacyDir /\ ver = internalV2 /\ outcome = "exec"
    /\ dir.standby.err = "none" /\ ~dir.standby.Running
    /\ dir.snap = Snap("none", TRUE, "1")
    /\ ~dir.log.err /\ dir.log.ents = <<Cmd("delete", SentinelKey, ""), MigrationSet>>

\* C5: legacy directory, no running standby marker, no snapshot, a log that
\* decodes cleanly: V2 when the log sets the sentinel key to "2", V1 when it
\* does not.
C5_LogSentinelDecides ==
    (NoV2Key /\ ResolverOver /\ LegacyDir /\ NoRunningStandby
        /\ dir.snap = NoSnap /\ LogDecodesCleanly) =>
        ver = IF LogHoldsSentinel THEN internalV2 ELSE internalV1

\* C5 witness: a log that sets the key to "1" and then to "2" resolved V2.
C5_Witness ==
    /\ NoV2Key /\ LegacyDir /\ NoRunningStandby /\ dir.snap = NoSnap
    /\ ~dir.log.err /\ dir.log.ents = <<Cmd("set", SentinelKey, "1"), MigrationSet>>
    /\ ver = internalV2 /\ pc = "done"

\* C6: the scan asks the candidates in list order, each at most once; only
\* the last request can be informative; a scan that ended after requests
\* without an informative answer has asked every candidate; once a request
\* is informative the scan is over and returns its epoch; [error, "bogus",
\* "1"] gives V1.
C6_FirstInformativeWins ==
    /\ \A i \in 1..Len(queried) : queried[i][1] = i /\ i <= Len(urls)
    /\ \A i \in 1..(Len(queried) - 1) : ~Informative(queried[i][2])
    /\ (pc # "scan" /\ queried # <<>> /\ FirstInformative(queried, 1) = None) =>
          Len(queried) = Len(urls)
    /\ FirstInformative(queried, 1) # None =>
          /\ pc # "scan"
          /\ ~probe.err
          /\ probe.ver = FirstInformative(queried, 1)
    /\ (pc # "scan" /\ probe.ver \in {internalV1, internalV2}) =>
          probe.ver = FirstInformative(queried, 1)
    /\ (Len(queried) = 3
          /\ queried[1][2] = Answer("get", "")
          /\ queried[2][2] = Answer("none", "3")
          /\ queried[3][2] = Answer("none", "1")) =>
          probe = [ver |-> internalV1, err |-> FALSE, names |-> <<>>]

\* C6 witness: the scan of three candidates that answered error, "3", "1".
C6_Witness ==
    /\ Len(urls) = 3 /\ Len(queried) = 3
    /\ queried[1][2] = Answer("get", "")
    /\ queried[2][2] = Answer("none", "3")
    /\ queried[3][2] = Answer("none", "1")
    /\ probe.ver = internalV1

\* C7: when no candidate gives an informative answer the resolver returns
\* all the same: V2 for an absent directory, V1 for a legacy directory with
\* a running standby marker.
C7_ProbeFailureDegrades ==
    (NoV2Key /\ ResolverOver /\ FirstInformative(queried, 1) = None) =>
        /\ AbsentDir => ver = internalV2
        /\ (LegacyDir /\ RunningStandby) => ver = internalV1

\* C7 witness: an absent directory, a candidate that was asked and gave no
\* informative answer, and the run handed off as V2.
C7_Witness ==
    /\ NoV2Key /\ AbsentDir /\ Len(queried) >= 1
    /\ FirstInformative(queried, 1) = None
    /\ ver = internalV2 /\ outcome = "exec"

\* C8: absent directory, no discovery URL, empty -peers: V2.
C8_AbsentNoPeersGivesV2 ==
    (NoV2Key /\ ResolverOver /\ AbsentDir /\ fs["discovery"] = ""
        /\ fs["peers"] = <<Entry(FALSE, "")>>) =>
        ver = internalV2

\* C8 witness: such a run was handed off.
C8_Witness ==
    /\ NoV2Key /\ ResolverOver /\ AbsentDir /\ fs["discovery"] = ""
    /\ fs["peers"] = <<Entry(FALSE, "")>>
    /\ outcome = "exec" /\ plan.p = Join(BinDir, "2")

\* C9: a path, an argument vector or an exec call exists only for V1, V2 or
\* V2Proxy; an unhandled classification ends the run in a panic with no
\* version, no plan and the arguments untouched.
C9_NoExecOutsideHandled ==
    /\ (plan # NoPlan \/ pc = "exec" \/ outcome = "exec") =>
          ver \in {internalV1, internalV2, internalV2Proxy}
    /\ dir.dataver = WALOther =>
          /\ outcome = "panic"
          /\ ver = None
          /\ plan = NoPlan
          /\ args = OrigArgs

\* C9 witness: the classifier returned a tag the switch does not list.
C9_Witness == dir.dataver = WALOther /\ outcome = "panic" /\ pc = "done"

\* C10: a run that is over ended in a handoff or in a fatal diagnostic with
\* a non-zero exit status (log.Fatalf or a panic).
C10_EndsInHandoffOrFatal ==
    pc = "done" => outcome \in {"exec", "fatal", "panic"}

\* The probe has returned to its caller.
ProbeReturned == pc = "probeReturn"
\* newDefaultClient returned a client (line 240 was reached).
ProbeClientBuilt == idx >= 1

\* C11 as stated: the probe returns an error, and no epoch, exactly when no
\* candidate gives an informative answer; the error names every URL of the
\* candidate list; no candidate is asked twice.
C11_ErrorNamesEveryCandidate ==
    /\ ProbeReturned =>
          /\ probe.err <=> FirstInformative(queried, 1) = None
          /\ probe.err => probe.ver = internalUnknown /\ probe.names = urls
          /\ ~probe.err => probe.ver \in {internalV1, internalV2}
    /\ Len(queried) <= Len(urls)
    /\ \A i \in 1..Len(queried) : queried[i][1] = i

\* C11 amended: as stated, but the error names the candidate list when the
\* HTTP client was built and every candidate was then asked once; when the
\* client cannot be built the error is the client's and no request is made.
\* While the scan runs the index is one past the requests made, so the scan
\* ends after at most one request per candidate.
C11_ScanErrorNamesCandidates ==
    /\ ProbeReturned =>
          /\ probe.err <=> FirstInformative(queried, 1) = None
          /\ probe.err => probe.ver = internalUnknown
          /\ ~probe.err => probe.ver \in {internalV1, internalV2}
          /\ (probe.err /\ ProbeClientBuilt) =>
                /\ probe.names = urls
                /\ Len(queried) = Len(urls)
          /\ (probe.err /\ ~ProbeClientBuilt) => queried = <<>>
    /\ Len(queried) <= Len(urls)
    /\ \A i \in 1..Len(queried) : queried[i][1] = i
    /\ pc = "scan" => idx = Len(queried) + 1 /\ idx <= Len(urls) + 1

\* C11 witness: two candidates were asked, neither was informative, and the
\* probe returned the error that names both.
C11_Witness ==
    /\ ProbeReturned /\ Len(urls) = 2 /\ Len(queried) = 2
    /\ probe.err /\ probe.names = urls /\ probe.ver = internalUnknown

\* checkInternalVersion has returned for the second time.
ReturnedAgain == pc = "switch" /\ earlier # <<>>

\* C12: the second call of checkInternalVersion on the same flag set, with
\* the directory and the answers of the outside unchanged, returns the epoch
\* the first call returned.
C12_SecondCallSameEpoch == ReturnedAgain => ver = earlier[1]

\* C12 witness: both calls took the standby route to V2Proxy; the first
\* unset ETCD_DISCOVERY and both appended -initial-cluster to os.Args.
C12_Witness ==
    /\ ReturnedAgain /\ earlier = <<internalV2Proxy>> /\ ver = internalV2Proxy
    /\ LegacyDir /\ RunningStandby /\ Len(queried) = 1
    /\ "ETCD_DISCOVERY" \notin env
    /\ Len(osArgs) = Len(OrigArgs) + 5
    /\ osArgs[Len(osArgs) - 1] = "-initial-cluster" /\ osArgs[Len(osArgs) - 3] = "-initial-cluster"

\* C13: with no v2-only key set, an empty data-dir resolves V2 and the
\* classifier is not called; a directory in the current format resolves V2,
\* in the current proxy format V2Proxy, an unrecognized one V2; in all four
\* cases no peer is asked and no legacy artifact is decoded.
C13_RulesWithoutEvidence ==
    (NoV2Key /\ ResolverOver) =>
        /\ fs["data-dir"] = "" =>
              ver = internalV2 /\ consulted = {} /\ dir = NoDir /\ queried = <<>>
        /\ dir.dataver \in {WALv2_0, WALv2_0_1} =>
              ver = internalV2 /\ consulted = {"classifier"} /\ queried = <<>>
        /\ dir.dataver = WALv2_0Proxy =>
              ver = internalV2Proxy /\ consulted = {"classifier"} /\ queried = <<>>
        /\ dir.dataver = WALUnknown =>
              ver = internalV2 /\ consulted = {"classifier"} /\ queried = <<>>

\* C13 witness: a directory in the 2.0.1 format was handed off as V2.
C13_Witness ==
    /\ NoV2Key /\ dir.dataver = WALv2_0_1 /\ ver = internalV2
    /\ consulted = {"classifier"} /\ outcome = "exec"

\* The standby_info file is in the data directory.
StandbyFileExists == dir.standby.err # "notexist"

\* C14: a directory in the current proxy format that holds a standby_info
\* file is handed off with -proxy=on among the arguments and with the
\* standby_info diagnostic printed.
C14_StandbyFileGetsProxyAndDiagnostic ==
    (NoV2Key /\ dir.dataver = WALv2_0Proxy /\ StandbyFileExists /\ ExecCalled) =>
        /\ \E i \in 1..Len(plan.argv) : plan.argv[i] = "-proxy=on"
        /\ "detected standby_info file" \in diag

\* The inspector is called and meets a decode error: the snapshot, or the
\* log it goes on to read, or a command of the log before any set of the
\* sentinel.
InspectorMeetsError ==
    \/ dir.snap.err \in {"decode", "unmarshal"}
    \/ /\ dir.snap.err = "nosnap" \/ (dir.snap.err = "none" /\ dir.snap.etcdDir
                                        /\ dir.snap.entry # "2")
       /\ CheckLog4(dir.log).err

\* C15: in a legacy directory (no v2-only key) a standby marker that cannot
\* be decoded resolves V1, no peer asked and the store not inspected; a
\* missing marker leads to the inspector; a decode error the inspector meets
\* resolves V1.  In none of these cases does the run end in the resolver.
C15_LegacyDecodeErrorsGiveV1 ==
    (NoV2Key /\ ResolverOver /\ LegacyDir) =>
        /\ dir.standby.err = "decode" =>
              /\ ver = internalV1
              /\ consulted = {"classifier", "standby"}
              /\ queried = <<>>
              /\ "failed to decode standbyInfo" \in diag
        /\ dir.standby.err = "notexist" => "snapshot" \in consulted
        /\ (NoRunningStandby /\ InspectorMeetsError) =>
              /\ ver = internalV1
              /\ "failed to check start version in data dir" \in diag

\* C15 witness: no standby marker, no snapshot, a log whose second command
\* cannot be decoded: handed off as V1.
C15_Witness ==
    /\ NoV2Key /\ LegacyDir /\ dir.standby.err = "notexist" /\ dir.snap = NoSnap
    /\ ~dir.log.err /\ dir.log.ents = <<Cmd("set", "/foo", "2"), Cmd("bad", "", "")>>
    /\ ver = internalV1 /\ outcome = "exec"

\* The inspector was called and has returned to the resolver.
InspectorReturned ==
    NoV2Key /\ ResolverOver /\ LegacyDir /\ NoRunningStandby /\ ver # None
\* The resolver reported an error of the inspector (line 144).
InspectorFailed == "failed to check start version in data dir" \in diag

\* The store decodes: no snapshot or a snapshot store with the _etcd
\* directory, and a log whose every command decodes.
ErrorFreeStore ==
    /\ dir.snap.err = "nosnap" \/ (dir.snap.err = "none" /\ dir.snap.etcdDir)
    /\ LogDecodesCleanly

\* The last set command of the sentinel key in the log writes v.
LastSetWrites(v) ==
    \E i \in 1..Len(dir.log.ents) :
        /\ dir.log.ents[i] = Cmd("set", SentinelKey, v)
        /\ \A j \in (i + 1)..Len(dir.log.ents) :
              ~(dir.log.ents[j].name = "set" /\ dir.log.ents[j].Key = SentinelKey)

\* C16 as stated: on an error-free store the inspector reports V2 exactly
\* when the snapshot holds the sentinel or the log sets the sentinel key to
\* "2", V1 otherwise; the log is read when the snapshot does not hold the
\* sentinel; and the last set of the key wins: a log whose last set of the
\* key writes another value is not reported as migrated by the log stage.
C16_LastSetWins ==
    (InspectorReturned /\ ErrorFreeStore) =>
        /\ ver = IF SnapshotHoldsSentinel \/ LogHoldsSentinel THEN internalV2 ELSE internalV1
        /\ "log" \in consulted <=> ~SnapshotHoldsSentinel
        /\ (~SnapshotHoldsSentinel /\ LastSetWrites("1")) => ver # internalV2

\* C16 amended: as stated, but any set of the sentinel key to "2" in the log
\* decides V2, whatever a later set of the key writes.
C16_AnySentinelSetWins ==
    (InspectorReturned /\ ErrorFreeStore) =>
        /\ ver = IF SnapshotHoldsSentinel \/ LogHoldsSentinel THEN internalV2 ELSE internalV1
        /\ "log" \in consulted <=> ~SnapshotHoldsSentinel
        /\ ~InspectorFailed
        /\ (~SnapshotHoldsSentinel /\ LogHoldsSentinel /\ LastSetWrites("1")) =>
              ver = internalV2

\* C16 witness: behind a snapshot that holds "1", a log that sets the key to
\* "2" and then to "1" was reported as migrated.
C16_Witness ==
    /\ InspectorReturned /\ dir.snap = Snap("none", TRUE, "1")
    /\ ~dir.log.err /\ dir.log.ents = <<MigrationSet, Cmd("set", SentinelKey, "1")>>
    /\ ver = internalV2 /\ "log" \in consulted /\ outcome = "exec"

\* A snapshot that decodes to a store holds the _etcd directory.
SnapshotHasEtcdDir == dir.snap.err = "none" => dir.snap.etcdDir

\* Some artifact of the store cannot be decoded.
SomeArtifactUndecodable ==
    \/ dir.snap.err \in {"decode", "unmarshal"}
    \/ dir.log.err
    \/ \E i \in 1..Len(dir.log.ents) : dir.log.ents[i].name = "bad"

\* C17 as stated: when the snapshot, the log or any command of the log
\* cannot be decoded, the inspector returns an error, whatever the other
\* artifacts hold.
C17_EveryDecodeFailureIsError ==
    (InspectorReturned /\ SomeArtifactUndecodable /\ SnapshotHasEtcdDir) =>
        InspectorFailed /\ ver # internalV2

\* C17 amended: a decode failure the inspector meets (the snapshot; the log
\* when the snapshot does not hold the sentinel; a command ahead of the first
\* set of the sentinel) is returned as an error with no verdict, and the
\* inspector returns no error without such a failure.  A snapshot that holds
\* the sentinel gives V2 without the log being read.
C17_MetDecodeFailureIsError ==
    InspectorReturned =>
        /\ InspectorMeetsError =>
              /\ InspectorFailed
              /\ \A np \in BOOLEAN :
                    checkInternalVersionByDataDir4(dir.snap, dir.log, np) = Failure
        /\ InspectorFailed => SomeArtifactUndecodable /\ ~SnapshotHoldsSentinel
        /\ SnapshotHoldsSentinel =>
              /\ ver = internalV2 /\ "log" \notin consulted
              /\ \A np \in BOOLEAN :
                    checkInternalVersionByDataDir4(dir.snap, dir.log, np) = Verdict(internalV2)

\* C17 witness: the snapshot state is no store while the log holds the
\* sentinel: the inspector failed and the run was handed off as V1.
C17_Witness ==
    /\ InspectorReturned /\ dir.snap.err = "unmarshal" /\ LogHoldsSentinel
    /\ InspectorFailed /\ ver = internalV1 /\ outcome = "exec"

\* The absent branch has assembled the peers to ask (line 157 is reached).
PeersAssembled == AbsentDir /\ pc \in {"peerClient", "etcdURL"}

\* The peers the discovery service named: the values of the children of the
\* token that are not called _config or _state, in the order returned; none
\* when no discovery URL is configured or the lookup failed.
NamedByDiscovery ==
    LET answer == CHOOSE a \in DiscoveryAnswers : <<"discovery", a>> \in world.discovery
        members == SelectSeq(answer.nodes, LAMBDA n : n.Key \notin {"_config", "_state"})
    IN IF fs["discovery"] = "" \/ answer.err # "none" THEN <<>>
       ELSE [i \in 1..Len(members) |-> members[i].Value]

\* The static peers: one per comma separated entry of -peers, with the
\* scheme of the peer TLS settings in front.
NamedByPeersFlag ==
    LET scheme == IF fs["peer-tls"].CertFile # "" /\ fs["peer-tls"].KeyFile # ""
                  THEN "https" ELSE "http"
    IN [i \in 1..Len(fs["peers"]) |-> URL(scheme, fs["peers"][i].text)]

\* The first half of C18: the list is the discovery peers followed by the
\* static peers, and a failed lookup has not ended the run.
PeersAsNamed ==
    PeersAssembled => /\ peers = NamedByDiscovery \o NamedByPeersFlag
                      /\ outcome = "running"

\* C18: in the absent branch the peers to ask are the discovery peers
\* followed by the static peers; with no discovery URL and an empty -peers
\* flag the list is empty and no peer is sent a request.
C18_PeersAssembledEmptyWhenUnset ==
    /\ PeersAsNamed
    /\ (PeersAssembled /\ fs["discovery"] = "" /\ fs["peers"] = <<Entry(FALSE, "")>>) =>
          /\ peers = <<>>
          /\ "failed to get /etcdURL" \notin diag

\* The argument vector handed to the executable holds -proxy=on.
ProxyFlagInArgv == \E i \in 1..Len(plan.argv) : plan.argv[i] = "-proxy=on"

\* C19: at a handoff the argument vector holds -proxy=on exactly when the
\* epoch is V2Proxy, where it is the path, the original arguments and the
\* flag; for V1 and V2 it is the path and the original arguments.
C19_ProxyFlagIffV2Proxy ==
    ExecCalled =>
        /\ ProxyFlagInArgv <=> ver = internalV2Proxy
        /\ ver = internalV2Proxy => plan.argv = <<plan.p>> \o OrigArgs \o <<"-proxy=on">>
        /\ ver \in {internalV1, internalV2} => plan.argv = <<plan.p>> \o OrigArgs

\* C19 witness: the standby route to V2Proxy was handed off with the flag.
C19_Witness ==
    /\ LegacyDir /\ RunningStandby /\ ver = internalV2Proxy /\ outcome = "exec"
    /\ plan.argv = <<Join(BinDir, "2"), "-name=n0", "-proxy=on">>

\* C20: checkInternalVersion returns V1 only for a legacy directory, or for
\* an absent one whose first informative peer answer is "1" (so never with
\* a v2-only key, an empty data-dir or a directory of another class); and
\* with a running standby marker it returns V1 or V2Proxy, never V2.
C20_V1OnlyForLegacyOrPeerV1 ==
    /\ ver = internalV1 =>
          /\ NoV2Key /\ fs["data-dir"] # ""
          /\ LegacyDir \/ (AbsentDir /\ FirstInformative(queried, 1) = "1")
    /\ (NoV2Key /\ LegacyDir /\ RunningStandby /\ ver # None) =>
          ver \in {internalV1, internalV2Proxy}

\* C20 witness: an absent directory whose peer answered "1" was handed off
\* as V1.
C20_Witness ==
    /\ NoV2Key /\ AbsentDir /\ FirstInformative(queried, 1) = "1"
    /\ ver = internalV1 /\ outcome = "exec"

====
